---- MODULE Spec2Model ----
(***************************************************************************)
(* Model of filter_dataframe (src/streamlit_app.py, lines 61-123): the     *)
(* per-column filter builder of the reading-log dashboard.                 *)
(*                                                                         *)
(* A dataframe is a set of named columns (data, dtype) and the sequence of *)
(* row labels that are still present (df).  A cell is an integer code:     *)
(* NA is the missing value (NaN / NaT / None); in a numeric column the     *)
(* code is the number; in a datetime column it is a timestamp counted in   *)
(* ticks, TicksPerDay ticks making one calendar day; in an object column   *)
(* the code k stands for the string StrOf(k).                              *)
(***************************************************************************)
EXTENDS Integers, Sequences, FiniteSets, TLC

VARIABLES data, dtype, df, modify, to_filter_columns, i, pc, trail, slider

vars == <<data, dtype, df, modify, to_filter_columns, i, pc, trail, slider>>

(* ------------------------------ bounds --------------------------------- *)
MaxRows == 11
TicksPerDay == 2
MaxPatLen == 2

(* ------------------------- program constants --------------------------- *)
CategoricalLimit == 10
SliderSteps == 100

NA == -1

Columns == {"A", "B"}
DTypes == {"category", "numeric", "datetime", "object"}
Kinds == {"Categorical", "Numeric", "Temporal", "Text"}

(* ------------------------- the input datasets -------------------------- *)
Shapes == {"asc", "ascNA", "cyc", "cycNA", "allNA", "const"}
RowCounts == {0, MaxRows - 1, MaxRows}

Cell(shape, n, r) ==
    CASE shape = "asc"   -> r
      [] shape = "ascNA" -> IF r = 2 THEN NA ELSE r
      [] shape = "cyc"   -> ((r - 1) % 3) + 1
      [] shape = "cycNA" -> IF r = 1 THEN NA ELSE ((r - 1) % 3) + 1
      [] shape = "allNA" -> NA
      [] OTHER           -> 4

ColumnOf(shape, n) == [r \in 1..n |-> Cell(shape, n, r)]

(* ----------------------------- sequences ------------------------------- *)
RECURSIVE Keep(_, _)
Keep(rows, S) ==
    IF rows = <<>> THEN <<>>
    ELSE IF Head(rows) \in S THEN <<Head(rows)>> \o Keep(Tail(rows), S)
         ELSE Keep(Tail(rows), S)

Labels(rows) == {rows[k] : k \in 1..Len(rows)}

(* --------------------------- pandas helpers ---------------------------- *)
\* df[column].unique(): the distinct values, the missing value included
Unique(rows, c) == {data[c][r] : r \in Labels(rows)}

\* df[column].nunique(): the number of distinct non-missing values
NUnique(rows, c) == Cardinality(Unique(rows, c) \ {NA})

\* df[column].min() / .max(): over the non-missing values
ColMin(rows, c) ==
    LET S == Unique(rows, c) \ {NA}
    IN  IF S = {} THEN NA ELSE CHOOSE x \in S : \A y \in S : x <= y

ColMax(rows, c) ==
    LET S == Unique(rows, c) \ {NA}
    IN  IF S = {} THEN NA ELSE CHOOSE x \in S : \A y \in S : y <= x

\* a membership test under which a missing value matches nothing
IsInDropMissing(v, chosen) == v # NA /\ v \in chosen

\* Series.isin(values): set membership; a missing value matches a missing value
IsIn(v, chosen) == v \in chosen

\* a range test that leaves the right end out
BetweenRightOpen(v, left, right) == v # NA /\ left <= v /\ v < right

\* Series.between(left, right): inclusive both ends; a missing value compares False
Between(v, left, right) == v # NA /\ left <= v /\ v <= right

\* pd.to_datetime(date): midnight of that calendar day
ToDatetime(d) == d * TicksPerDay

\* the date st.date_input shows for a timestamp: its calendar day
DateOf(t) == t \div TicksPerDay

Chars == <<"a", "A", "b", ".">>

\* the string an object cell holds
StrOf(k) == <<Chars[(((k - 1) \div 4) % 4) + 1], Chars[((k - 1) % 4) + 1]>>

\* Series.astype(str): a missing value becomes the text "nan"
AsStr(v) == IF v = NA THEN <<"n", "a", "n">> ELSE StrOf(v)

\* re.compile(pat): an unbalanced parenthesis is an error
RegexValid(pat) == \A k \in 1..Len(pat) : pat[k] # "("

\* a character test that ignores letter case
CharMatchesAnyCase(p, ch) == p = "." \/ p = ch \/ {p, ch} = {"a", "A"}

\* one pattern character against one character of the text
CharMatches(p, ch) == p = "." \/ p = ch

\* Series.str.contains(pat) with the default regex=True, case=True: re.search
StrContains(s, pat) ==
    \E off \in 0..(Len(s) - Len(pat)) :
        \A k \in 1..Len(pat) : CharMatches(pat[k], s[off + k])

(* --------------------------- classification ---------------------------- *)
\* the cardinality rule taken as "at most 10"
KindAtMostLimit(rows, c) ==
    IF dtype[c] = "category" \/ NUnique(rows, c) <= CategoricalLimit
    THEN "Categorical"
    ELSE IF dtype[c] = "numeric" THEN "Numeric"
    ELSE IF dtype[c] = "datetime" THEN "Temporal"
    ELSE "Text"

\* classification by dtype alone, without the cardinality rule
KindByDtype(rows, c) ==
    IF dtype[c] = "category" THEN "Categorical"
    ELSE IF dtype[c] = "numeric" THEN "Numeric"
    ELSE IF dtype[c] = "datetime" THEN "Temporal"
    ELSE "Text"

\* classification on the rows of the input dataframe instead of the current ones
KindOnInput(rows, c) ==
    LET all == [r \in 1..Len(data[c]) |-> r]
    IN  IF dtype[c] = "category" \/ NUnique(all, c) < CategoricalLimit
        THEN "Categorical"
        ELSE IF dtype[c] = "numeric" THEN "Numeric"
        ELSE IF dtype[c] = "datetime" THEN "Temporal"
        ELSE "Text"

Kind(rows, c) ==
    IF dtype[c] = "category" \/ NUnique(rows, c) < CategoricalLimit
    THEN "Categorical"
    ELSE IF dtype[c] = "numeric" THEN "Numeric"
    ELSE IF dtype[c] = "datetime" THEN "Temporal"
    ELSE "Text"

(* ----------------------------- user input ------------------------------ *)
NoInput == [kind |-> "none", set |-> {}, lo |-> 0, hi |-> 0, dates |-> <<>>, pat |-> <<>>]

CatInput(S)   == [NoInput EXCEPT !.kind = "Categorical", !.set = S]
NumInput(a, b) == [NoInput EXCEPT !.kind = "Numeric", !.lo = a, !.hi = b]
DateInput(ds) == [NoInput EXCEPT !.kind = "Temporal", !.dates = ds]
TextInput(p)  == [NoInput EXCEPT !.kind = "Text", !.pat = p]

\* what st.multiselect can return: a subset of the options
MultiselectValues(options) ==
    {options, options \ {NA}, options \cap {NA}, {}}
    \cup {{v \in options : v # NA /\ v <= t} : t \in {1, 2, 5}}
    \cup {{v \in options : v = NA \/ v % 2 = 1}}

\* what the range st.slider can return: an ordered pair inside [min_value, max_value]
SliderValues(lo, hi) ==
    LET P == {lo, hi} \cup ({3, 9} \cap (lo..hi))
    IN  {<<a, b>> \in P \X P : a <= b}

\* what the range st.date_input can return: no date, one date, or an ordered pair
DateInputValues(first, last) ==
    LET D == {first, last, last + 1} \cup ({2} \cap (first..last))
    IN  {<<>>} \cup {<<a>> : a \in {first}} \cup {<<a, b>> \in D \X D : a <= b}

PatChars == {"a", "A", ".", "("}

RECURSIVE StringsUpTo(_)
StringsUpTo(n) ==
    IF n = 0 THEN {<<>>}
    ELSE LET S == StringsUpTo(n - 1)
         IN  S \cup {Append(s, ch) : s \in {t \in S : Len(t) = n - 1}, ch \in PatChars}

\* what st.text_input can return
TextInputValues == StringsUpTo(MaxPatLen)

(* ------------------------- one pass of the loop ------------------------ *)
\* df[df[column].isin(user_cat_input)]
CategoricalRows(rows, c, chosen) ==
    Keep(rows, {r \in Labels(rows) : IsIn(data[c][r], chosen)})

\* a boolean mask taken by position in the column instead of by row label
NumericRowsByPosition(rows, c, lo, hi) ==
    Keep(rows, {rows[k] : k \in {j \in 1..Len(rows) : Between(data[c][j], lo, hi)}})

\* a range filter that lets rows with a missing value through
NumericRowsKeepMissing(rows, c, lo, hi) ==
    Keep(rows, {r \in Labels(rows) : data[c][r] = NA \/ Between(data[c][r], lo, hi)})

\* df[df[column].between(*user_num_input)]
NumericRows(rows, c, lo, hi) ==
    Keep(rows, {r \in Labels(rows) : Between(data[c][r], lo, hi)})

\* a date filter that takes a single date as both ends of the range
TemporalRowsSingleDate(rows, c, dates) ==
    IF Len(dates) >= 1
    THEN LET start_date == ToDatetime(dates[1])
             end_date   == ToDatetime(dates[Len(dates)])
         IN  Keep(rows, {r \in Labels(rows) : Between(data[c][r], start_date, end_date)})
    ELSE rows

\* if len(user_date_input) == 2: df.loc[df[column].between(start_date, end_date)]
TemporalRows(rows, c, dates) ==
    IF Len(dates) = 2
    THEN LET start_date == ToDatetime(dates[1])
             end_date   == ToDatetime(dates[2])
         IN  Keep(rows, {r \in Labels(rows) : Between(data[c][r], start_date, end_date)})
    ELSE rows

\* if user_text_input: df[df[column].astype(str).str.contains(user_text_input)]
TextRows(rows, c, pat) ==
    IF pat # <<>>
    THEN Keep(rows, {r \in Labels(rows) : StrContains(AsStr(data[c][r]), pat)})
    ELSE rows

\* the slider step
SliderStep(lo, hi) == [num |-> hi - lo, den |-> SliderSteps]

Record(c, k, in, after) ==
    Append(trail, [col |-> c, kind |-> k, input |-> in, before |-> df, after |-> after])

Column == to_filter_columns[i]

InLoop == pc = "loop" /\ i <= Len(to_filter_columns)

(* ------------------------------- actions ------------------------------- *)
Orders ==
    {<<>>} \cup {<<c>> : c \in Columns}
    \cup {p \in Columns \X Columns : p[1] # p[2]}

Init ==
    /\ \E n \in RowCounts :
         /\ data \in [Columns -> {ColumnOf(s, n) : s \in Shapes}]
         /\ df = [r \in 1..n |-> r]
    /\ dtype \in [Columns -> DTypes]
    /\ modify = FALSE
    /\ to_filter_columns = <<>>
    /\ i = 1
    /\ pc = "start"
    /\ trail = <<>>
    /\ slider = [min |-> 0, max |-> 0, step |-> SliderStep(0, 0)]

\* "Add filters" is not ticked: the dataframe is returned as it is
NoFilters ==
    /\ pc = "start"
    /\ modify' = FALSE
    /\ pc' = "done"
    /\ UNCHANGED <<data, dtype, df, to_filter_columns, i, trail, slider>>

\* "Add filters" is ticked and the columns to filter on are chosen
SelectColumns ==
    /\ pc = "start"
    /\ modify' = TRUE
    /\ to_filter_columns' \in Orders
    /\ i' = 1
    /\ pc' = "loop"
    /\ UNCHANGED <<data, dtype, df, trail, slider>>

CategoricalPass ==
    /\ InLoop
    /\ Kind(df, Column) = "Categorical"
    /\ \E user_cat_input \in MultiselectValues(Unique(df, Column)) :
         LET after == CategoricalRows(df, Column, user_cat_input)
         IN  /\ df' = after
             /\ trail' = Record(Column, "Categorical", CatInput(user_cat_input), after)
    /\ i' = i + 1
    /\ UNCHANGED <<data, dtype, modify, to_filter_columns, pc, slider>>

NumericPass ==
    /\ InLoop
    /\ Kind(df, Column) = "Numeric"
    /\ LET _min == ColMin(df, Column)
           _max == ColMax(df, Column)
       IN  /\ slider' = [min |-> _min, max |-> _max, step |-> SliderStep(_min, _max)]
           /\ \E user_num_input \in SliderValues(_min, _max) :
                LET after == NumericRows(df, Column, user_num_input[1], user_num_input[2])
                IN  /\ df' = after
                    /\ trail' = Record(Column, "Numeric",
                                       NumInput(user_num_input[1], user_num_input[2]), after)
    /\ i' = i + 1
    /\ UNCHANGED <<data, dtype, modify, to_filter_columns, pc>>

TemporalPass ==
    /\ InLoop
    /\ Kind(df, Column) = "Temporal"
    /\ \E user_date_input \in DateInputValues(DateOf(ColMin(df, Column)),
                                              DateOf(ColMax(df, Column))) :
         LET after == TemporalRows(df, Column, user_date_input)
         IN  /\ df' = after
             /\ trail' = Record(Column, "Temporal", DateInput(user_date_input), after)
    /\ i' = i + 1
    /\ UNCHANGED <<data, dtype, modify, to_filter_columns, pc, slider>>

TextPass ==
    /\ InLoop
    /\ Kind(df, Column) = "Text"
    /\ \E user_text_input \in TextInputValues :
         IF user_text_input # <<>> /\ ~RegexValid(user_text_input)
         THEN /\ pc' = "raised"
              /\ trail' = Record(Column, "Text", TextInput(user_text_input), df)
              /\ UNCHANGED <<df, i>>
         ELSE LET after == TextRows(df, Column, user_text_input)
              IN  /\ df' = after
                  /\ trail' = Record(Column, "Text", TextInput(user_text_input), after)
                  /\ i' = i + 1
                  /\ pc' = pc
    /\ UNCHANGED <<data, dtype, modify, to_filter_columns, slider>>

Return ==
    /\ pc = "loop"
    /\ i > Len(to_filter_columns)
    /\ pc' = "done"
    /\ UNCHANGED <<data, dtype, df, modify, to_filter_columns, i, trail, slider>>

Next ==
    \/ NoFilters
    \/ SelectColumns
    \/ CategoricalPass
    \/ NumericPass
    \/ TemporalPass
    \/ TextPass
    \/ Return

Spec == Init /\ [][Next]_vars

(* ======================= properties of the filter ===================== *)
\* the rows of the input dataframe, in their order
AllRows == [r \in 1..Len(data["A"]) |-> r]

Passes == {trail[k] : k \in 1..Len(trail)}

Returned == pc = "done" /\ modify

NonMissing(rows, c) == {data[c][r] : r \in Labels(rows)} \ {NA}

Least(S) == CHOOSE x \in S : \A y \in S : x <= y
Greatest(S) == CHOOSE x \in S : \A y \in S : y <= x

\* the input a widget returns when the user does not touch it
IsDefault(t) ==
    CASE t.kind = "Categorical" ->
           t.input.set = {data[t.col][r] : r \in Labels(t.before)}
      [] t.kind = "Numeric" ->
           /\ t.input.lo = Least(NonMissing(t.before, t.col))
           /\ t.input.hi = Greatest(NonMissing(t.before, t.col))
      [] t.kind = "Temporal" ->
           t.input.dates = << Least(NonMissing(t.before, t.col)) \div TicksPerDay,
                              Greatest(NonMissing(t.before, t.col)) \div TicksPerDay >>
      [] OTHER -> t.input.pat = <<>>

AllDefault == \A t \in Passes : IsDefault(t)

HasMissing(t) == \E r \in Labels(t.before) : data[t.col][r] = NA

\* the latest timestamp of the column is the midnight that starts its day
EndsAtMidnight(t) ==
    LET last == Greatest(NonMissing(t.before, t.col))
    IN  (last \div TicksPerDay) * TicksPerDay = last

\* C1 (as stated): with the default input for every selected column the returned
\* rows are the input rows, same rows and same order, also when a filtered
\* column holds missing values.
C1_IdentityLaw == (Returned /\ AllDefault) => df = AllRows

\* C1 (amended): with the default input for every selected column the returned
\* rows are the input rows, same rows and same order, provided that no column
\* classified Numeric or Temporal holds a missing value and that the latest
\* timestamp of a column classified Temporal falls on midnight.
C1_IdentityLawAmended ==
    ( /\ Returned
      /\ AllDefault
      /\ \A t \in Passes :
           /\ t.kind \in {"Numeric", "Temporal"} => ~HasMissing(t)
           /\ t.kind = "Temporal" => EndsAtMidnight(t) )
    => df = AllRows

C1_Witness ==
    /\ Returned
    /\ AllDefault
    /\ Len(trail) = 2
    /\ df = AllRows
    /\ trail[1].kind = "Numeric" /\ ~HasMissing(trail[1])
    /\ trail[2].kind = "Categorical" /\ HasMissing(trail[2])

\* does row r satisfy the constraint of pass t
Satisfies(t, r) ==
    LET v == data[t.col][r]
    IN  CASE t.kind = "Categorical" -> v \in t.input.set
          [] t.kind = "Numeric" -> v # NA /\ t.input.lo <= v /\ v <= t.input.hi
          [] t.kind = "Temporal" ->
               Len(t.input.dates) = 2 =>
                   /\ v # NA
                   /\ t.input.dates[1] * TicksPerDay <= v
                   /\ v <= t.input.dates[2] * TicksPerDay
          [] OTHER ->
               LET s == IF v = NA THEN <<"n", "a", "n">> ELSE StrOf(v)
                   p == t.input.pat
               IN  \E off \in 0..(Len(s) - Len(p)) :
                       \A k \in 1..Len(p) : p[k] \in {".", s[off + k]}

\* strictly increasing row labels: original relative order, no row twice
Ordered(rows) == \A j, k \in 1..Len(rows) : j < k => rows[j] < rows[k]

\* C2: the rows returned are exactly the input rows that satisfy the constraint
\* of every selected column, in their original relative order, none duplicated
\* and none added.
C2_Conjunction ==
    Returned =>
        /\ Labels(df) = {r \in Labels(AllRows) : \A t \in Passes : Satisfies(t, r)}
        /\ Ordered(df)

C2_Witness ==
    /\ Returned
    /\ Len(trail) = 2
    /\ trail[1].kind = "Numeric" /\ trail[2].kind = "Categorical"
    /\ Len(trail[1].after) < Len(trail[1].before)
    /\ Len(trail[2].after) < Len(trail[2].before)
    /\ Len(df) > 1
    /\ \E r \in Labels(df) : data[trail[1].col][r] = trail[1].input.hi
    /\ \E r \in Labels(df) : data[trail[1].col][r] = trail[1].input.lo

\* C3: every column gets exactly one Kind, by the first rule that applies:
\* Categorical if the dtype is categorical or fewer than 10 distinct
\* non-missing values, else Numeric if numeric, else Temporal if a datetime,
\* else Text.
C3_Classification ==
    \A t \in Passes :
        LET distinct == Cardinality(NonMissing(t.before, t.col))
            low == dtype[t.col] = "category" \/ distinct < 10
        IN  /\ t.kind \in Kinds
            /\ (t.kind = "Categorical") <=> low
            /\ (t.kind = "Numeric") <=> (~low /\ dtype[t.col] = "numeric")
            /\ (t.kind = "Temporal") <=> (~low /\ dtype[t.col] = "datetime")
            /\ (t.kind = "Text") <=> (~low /\ dtype[t.col] = "object")

C3_Witness ==
    /\ Len(trail) = 2
    /\ Cardinality(NonMissing(trail[1].before, trail[1].col)) = 10
    /\ trail[1].kind = "Numeric"
    /\ Cardinality(NonMissing(trail[2].before, trail[2].col)) = 9
    /\ dtype[trail[2].col] = "datetime"
    /\ trail[2].kind = "Categorical"

\* one pass of the loop on `rows`, as a function of the user's input
PassRows(rows, c, in) ==
    CASE in.kind = "Categorical" -> CategoricalRows(rows, c, in.set)
      [] in.kind = "Numeric" -> NumericRows(rows, c, in.lo, in.hi)
      [] in.kind = "Temporal" -> TemporalRows(rows, c, in.dates)
      [] OTHER -> TextRows(rows, c, in.pat)

\* the untouched widget of column c on `rows`
DefaultInput(rows, c) ==
    CASE Kind(rows, c) = "Categorical" -> CatInput(Unique(rows, c))
      [] Kind(rows, c) = "Numeric" -> NumInput(ColMin(rows, c), ColMax(rows, c))
      [] Kind(rows, c) = "Temporal" ->
           DateInput(<<DateOf(ColMin(rows, c)), DateOf(ColMax(rows, c))>>)
      [] OTHER -> TextInput(<<>>)

\* the same user constraint on the column of pass t, when that column is
\* processed on `rows` instead: the same input where the same widget is shown,
\* the untouched widget where the user had left the other widget untouched
Carried(rows, t) ==
    IF Kind(rows, t.col) = t.kind THEN t.input ELSE DefaultInput(rows, t.col)

CanCarry(rows, t) == Kind(rows, t.col) = t.kind \/ IsDefault(t)

\* the run over the same two columns in the other order
SwappedFirst == PassRows(AllRows, trail[2].col, Carried(AllRows, trail[2]))
SwappedRows == PassRows(SwappedFirst, trail[1].col, Carried(SwappedFirst, trail[1]))

SameKinds ==
    /\ Kind(AllRows, trail[2].col) = trail[2].kind
    /\ Kind(SwappedFirst, trail[1].col) = trail[1].kind

\* C4 (as stated): filtering on two columns in the order [A, B] and in the
\* order [B, A] with the same user constraints yields the same final rows.
C4_OrderIndependent ==
    ( /\ Returned
      /\ Len(trail) = 2
      /\ CanCarry(AllRows, trail[2])
      /\ CanCarry(SwappedFirst, trail[1]) )
    => df = SwappedRows

\* C4 (amended): filtering on two columns in the order [A, B] and in the order
\* [B, A] with the same user constraints yields the same final rows, provided
\* each of the two columns is classified the same Kind in both orders.
C4_OrderIndependentAmended ==
    (Returned /\ Len(trail) = 2 /\ SameKinds) => df = SwappedRows

C4_Witness ==
    /\ Returned
    /\ Len(trail) = 2
    /\ SameKinds
    /\ trail[1].kind = "Numeric" /\ trail[2].kind = "Categorical"
    /\ Len(trail[1].after) < Len(trail[1].before)
    /\ Len(trail[2].after) < Len(trail[2].before)
    /\ Len(SwappedFirst) > Len(df)
    /\ df = SwappedRows
    /\ df # <<>>

\* C5: a Temporal pass whose input is not a pair of dates leaves the rows as
\* they are.
C5_DeferredPair ==
    \A t \in Passes :
        (t.kind = "Temporal" /\ Len(t.input.dates) # 2) => t.after = t.before

C5_Witness ==
    \E t \in Passes :
        /\ t.kind = "Temporal"
        /\ Len(t.input.dates) = 1
        /\ t.after = t.before
        /\ \E r \in Labels(t.before) : data[t.col][r] < t.input.dates[1] * TicksPerDay

\* the text contains the pattern, character for character
LiteralContains(s, p) ==
    \E off \in 0..(Len(s) - Len(p)) : \A k \in 1..Len(p) : s[off + k] = p[k]

TextOf(v) == IF v = NA THEN <<"n", "a", "n">> ELSE StrOf(v)

LiteralRows(t) ==
    {r \in Labels(t.before) : LiteralContains(TextOf(data[t.col][r]), t.input.pat)}

\* C6: out-of-domain input is recovered, never raised: a pattern that is not a
\* valid regular expression is applied as a literal substring, and a reversed
\* numeric range yields no rows.
C6_Recovered ==
    /\ pc # "raised"
    /\ \A t \in Passes :
         /\ (t.kind = "Text" /\ t.input.pat # <<>> /\ ~RegexValid(t.input.pat))
                => Labels(t.after) = LiteralRows(t)
         /\ (t.kind = "Numeric" /\ t.input.lo > t.input.hi) => t.after = <<>>

MissingIn(rows, c) == {r \in Labels(rows) : data[c][r] = NA}

\* C7 (as stated): after a Categorical, Numeric or Temporal pass no row with a
\* missing value in that column remains, whatever the input.
C7_MissingNeverMatches ==
    \A t \in Passes :
        t.kind \in {"Categorical", "Numeric", "Temporal"} => MissingIn(t.after, t.col) = {}

\* C7 (amended): after a Numeric pass, a Temporal pass given both dates, or a
\* Categorical pass whose chosen values do not include the missing value, no
\* row with a missing value in that column remains; a Categorical pass whose
\* chosen values include the missing value keeps those rows.
C7_MissingNeverMatchesAmended ==
    \A t \in Passes :
        /\ ( \/ t.kind = "Numeric"
             \/ t.kind = "Temporal" /\ Len(t.input.dates) = 2
             \/ t.kind = "Categorical" /\ NA \notin t.input.set )
           => MissingIn(t.after, t.col) = {}
        /\ (t.kind = "Categorical" /\ NA \in t.input.set)
           => MissingIn(t.after, t.col) = MissingIn(t.before, t.col)

C7_Witness ==
    \E t \in Passes :
        /\ t.kind = "Numeric"
        /\ IsDefault(t)
        /\ MissingIn(t.before, t.col) # {}
        /\ MissingIn(t.after, t.col) = {}
        /\ t.after # <<>>

\* pass t is the one that raised
Raised(t) == pc = "raised" /\ t = trail[Len(trail)]

Metachars == {".", "("}

IsLiteral(p) == \A k \in 1..Len(p) : p[k] \notin Metachars

\* the text has, somewhere, one character per pattern character, equal to it
\* unless the pattern character is the wildcard "."
WildcardContains(s, p) ==
    \E off \in 0..(Len(s) - Len(p)) :
        \A k \in 1..Len(p) : p[k] # "." => s[off + k] = p[k]

\* C8 (as stated): a Text pass with a non-empty pattern keeps a row if and only
\* if the string form of its value contains the pattern as a case-sensitive
\* substring, the pattern's characters compared literally; an empty pattern
\* keeps every row.
C8_TextLiteral ==
    \A t \in Passes :
        t.kind = "Text" =>
            /\ ~Raised(t)
            /\ t.input.pat # <<>> => Labels(t.after) = LiteralRows(t)
            /\ t.input.pat = <<>> => t.after = t.before

\* C8 (amended): a Text pass with a non-empty pattern that is a valid regular
\* expression keeps a row if and only if the string form of its value holds a
\* case-sensitive match of the pattern read as a regular expression ("." stands
\* for any character), which for a pattern without metacharacters is the
\* literal substring test; an empty pattern keeps every row.
C8_TextRegex ==
    \A t \in Passes :
        (t.kind = "Text" /\ (t.input.pat = <<>> \/ RegexValid(t.input.pat))) =>
            /\ ~Raised(t)
            /\ t.input.pat # <<>> =>
                 Labels(t.after) =
                     {r \in Labels(t.before) :
                          WildcardContains(TextOf(data[t.col][r]), t.input.pat)}
            /\ (t.input.pat # <<>> /\ IsLiteral(t.input.pat)) =>
                 Labels(t.after) = LiteralRows(t)
            /\ t.input.pat = <<>> => t.after = t.before

C8_Witness ==
    \E t \in Passes :
        /\ t.kind = "Text"
        /\ t.input.pat = <<"A", ".">>
        /\ Labels(t.after) # LiteralRows(t)
        /\ LiteralRows(t) # {}
        /\ \E r \in Labels(t.before) \ Labels(t.after) :
               TextOf(data[t.col][r]) = <<"a", "a">>

\* a is b with some of its rows left out
IsSubSeq(a, b) == a = Keep(b, Labels(a))

\* C9: every pass leaves a sub-sequence of the rows it was given, so an empty
\* row set stays empty, and a pass on a column that is empty, single-valued or
\* fully missing completes and hands no range widget an empty minimum or a
\* zero step.
C9_Narrowing ==
    /\ \A t \in Passes :
         /\ IsSubSeq(t.after, t.before)
         /\ t.before = <<>> => t.after = <<>>
         /\ Cardinality(NonMissing(t.before, t.col)) <= 1 =>
              /\ t.kind \notin {"Numeric", "Temporal"}
              /\ ~Raised(t)
    /\ \A k \in 1..Len(trail) : k > 1 => trail[k].before = trail[k - 1].after
    /\ (trail # <<>> /\ pc # "raised") => df = trail[Len(trail)].after

C9_Witness ==
    /\ Returned
    /\ Len(trail) = 2
    /\ trail[1].before # <<>>
    /\ trail[1].after = <<>>
    /\ dtype[trail[2].col] = "numeric"
    /\ trail[2].kind = "Categorical"
    /\ df = <<>>

\* C10: a column is classified on the rows that remain; whenever the Numeric
\* branch is entered the column has at least 10 distinct values there, so
\* min < max and the slider step is positive; and once fewer than 10 rows
\* remain every column is classified Categorical.
C10_KindOnNarrowed ==
    \A t \in Passes :
        /\ t.kind = "Numeric" =>
             /\ Cardinality(NonMissing(t.before, t.col)) >= 10
             /\ Least(NonMissing(t.before, t.col)) < Greatest(NonMissing(t.before, t.col))
        /\ (t.kind = "Numeric" /\ t = trail[Len(trail)]) =>
             /\ slider.min = Least(NonMissing(t.before, t.col))
             /\ slider.max = Greatest(NonMissing(t.before, t.col))
             /\ slider.step.num * 100 = (slider.max - slider.min) * slider.step.den
             /\ slider.step.num > 0 /\ slider.step.den > 0
        /\ Len(t.before) < 10 => t.kind = "Categorical"

C10_Witness ==
    /\ Len(trail) = 2
    /\ trail[1].kind = "Numeric"
    /\ Len(trail[1].after) = 9
    /\ dtype[trail[2].col] = "numeric"
    /\ Cardinality(NonMissing(AllRows, trail[2].col)) >= 10
    /\ trail[2].kind = "Categorical"
====
